---- MODULE Spec2Model ----
(***************************************************************************)
(* Runtime object model of openapiart (src/openapiart/common.py):          *)
(* OpenApiValidator, OpenApiObject (property store, choice coordinator,    *)
(* validation, codec).                                                     *)
(*                                                                         *)
(* Representation.  A Python str is a sequence of one-character strings,   *)
(* so that the validators and the int64 wire coercion work on characters.  *)
(* A Python value is a record [t, n, s, o]: t is the Python type, n the    *)
(* number of an int, s the characters of a str, o the payload of an        *)
(* object (a 1-tuple holding the instance) or of a dict (its items).       *)
(* A Python dict is the sequence of its <<key, value>> items in insertion  *)
(* order.  Two instances exist: 1, of generated type T, and 2, an          *)
(* unrelated instance of generated type K; T has an object field of type K.*)
(***************************************************************************)
EXTENDS Integers, Sequences, FiniteSets, TLC

VARIABLES objs, errors, last, steps, vres, cont, http

vars == <<objs, errors, last, steps, vres, cont, http>>

\* Bounds of the model.
MaxSteps == 3
MaxErrors == 3
MaxStrLen == 3

-----------------------------------------------------------------------------
\* Python values.
None == [t |-> "none", n |-> 0, s |-> <<>>, o |-> <<>>]

IntV(n) == [t |-> "int", n |-> n, s |-> <<>>, o |-> <<>>]

StrV(s) == [t |-> "str", n |-> 0, s |-> s, o |-> <<>>]

ObjV(inst) == [t |-> "obj", n |-> 0, s |-> <<>>, o |-> <<inst>>]

DictV(items) == [t |-> "dict", n |-> 0, s |-> <<>>, o |-> items]

BoolV(n) == [t |-> "bool", n |-> n, s |-> <<>>, o |-> <<>>]

\* A float with the whole number n as its value.
FloatV(n) == [t |-> "float", n |-> n, s |-> <<>>, o |-> <<>>]

ListV(items) == [t |-> "list", n |-> 0, s |-> <<>>, o |-> items]

Range(q) == {q[i] : i \in 1..Len(q)}

\* A local variable: body F of the value x, which is computed once.
Bind(x, F(_)) == F(x)

\* Python dict operations on a sequence of <<key, value>> items.
HasKey(d, k) == \E i \in 1..Len(d) : d[i][1] = k

KeyIndex(d, k) == CHOOSE i \in 1..Len(d) : d[i][1] = k

\* d.get(k): None when the key is missing.
DictGet(d, k) == IF HasKey(d, k) THEN d[KeyIndex(d, k)][2] ELSE None

\* d[k] = v: an existing key keeps its position, a new one goes last.
DictPut(d, k, v) ==
    IF HasKey(d, k) THEN [d EXCEPT ![KeyIndex(d, k)] = <<k, v>>]
    ELSE Append(d, <<k, v>>)

DictPop(d, k) == SelectSeq(d, LAMBDA p : p[1] # k)

Keys(d) == {d[i][1] : i \in 1..Len(d)}

-----------------------------------------------------------------------------
\* Field names of the generated types (Python strs).
CHOICE == <<"c", "h", "o", "i", "c", "e">>

F_A == <<"a">>

F_B == <<"b">>

F_O == <<"o">>

F_R == <<"r">>

F_I == <<"i">>

F_N == <<"n">>

F_L == <<"l">>

\* One entry of a generated _TYPES table.
Details(type, format, enum) ==
    [type |-> type, format |-> format, hasenum |-> enum # <<>>, enum |-> enum,
     itemtype |-> "", itemformat |-> "", min |-> None, max |-> None]

\* Schema metadata of the generated types: K has a choice group {a, b}
\* and a required name n; T has a choice group {a, b, o}, o being an object
\* of type K, a 64-bit integer r and an ipv4 string i; W has a 64-bit
\* integer r, an array l of 64-bit integers and a string n.
TYPES(cls) ==
    IF cls = "W"
    THEN << <<F_R, Details("int", "int64", <<>>)>>,
            <<F_L, [Details("list", "", <<>>) EXCEPT !.itemtype = "int",
                                                      !.itemformat = "int64"]>>,
            <<F_N, Details("str", "", <<>>)>> >>
    ELSE IF cls = "K"
    THEN << <<CHOICE, Details("str", "", <<F_A, F_B>>)>>,
            <<F_A, Details("str", "", <<>>)>>,
            <<F_B, Details("str", "", << <<"x">>, <<"y">> >>)>>,
            <<F_N, Details("str", "", <<>>)>> >>
    ELSE << <<CHOICE, Details("str", "", <<F_A, F_B, F_O>>)>>,
            <<F_A, Details("str", "", <<>>)>>,
            <<F_B, Details("str", "", << <<"x">>, <<"y">> >>)>>,
            <<F_O, Details("K", "", <<>>)>>,
            <<F_R, Details("int", "int64", <<>>)>>,
            <<F_I, Details("str", "ipv4", <<>>)>> >>

DEFAULTS(cls) ==
    IF cls = "W" THEN <<>>
    ELSE << <<CHOICE, StrV(F_A)>>, <<F_A, StrV(<<"d">>)>> >>

\* D is a generated type with the fields of T whose fields a, which has a
\* static default, and r, which has none, are required.
REQUIRED(cls) ==
    IF cls = "K" THEN <<F_N>> ELSE IF cls = "D" THEN <<F_A, F_R>> ELSE <<>>

JSON_NAME(cls) == <<cls>>

\* The types the runtime treats as scalars (dtypes / common_data_types).
CommonDataTypes == {"list", "str", "int", "float", "bool"}

-----------------------------------------------------------------------------
\* OpenApiObject.__init__: an empty property store, the parent back-reference
\* (here: whether the instance is bound to the instance that holds it) and
\* the name of the choice field it occupies there.
NewObject(cls, parent, choice) ==
    [cls |-> cls, props |-> <<>>, parent |-> parent, choice |-> choice]

\* An error message: which check failed, the path (and list index, 0 for
\* none) and the value it names; own is the instance (1 or 2) whose operation
\* recorded it, which the Python message does not carry.
Err(kind, path, idx, value, own) ==
    [kind |-> kind, path |-> path, idx |-> idx, v |-> value, own |-> own]

HasChoice(inst, name) ==
    /\ HasKey(TYPES(inst.cls), CHOICE)
    /\ name \in Range(DictGet(TYPES(inst.cls), CHOICE).enum)

RECURSIVE PopAll(_, _, _)
PopAll(d, names, keep) ==
    IF names = <<>> THEN d
    ELSE PopAll(IF Head(names) # keep THEN DictPop(d, Head(names)) ELSE d,
                Tail(names), keep)

\* A _set_choice that records the choice and leaves the other members of
\* the group stored: a faulty variant, which the exclusivity property rejects.
SetChoice_NoEvict(inst, name) ==
    IF HasChoice(inst, name)
    THEN [inst EXCEPT !.props = DictPut(@, CHOICE, StrV(name))]
    ELSE inst

SetChoice(inst, name) ==
    IF HasChoice(inst, name)
    THEN [inst EXCEPT !.props =
            DictPut(PopAll(@, DictGet(TYPES(inst.cls), CHOICE).enum, name),
                    CHOICE, StrV(name))]
    ELSE inst

IsEnumValid(inst, name, value) ==
    IF HasKey(TYPES(inst.cls), name) /\ DictGet(TYPES(inst.cls), name).hasenum
    THEN value.t = "str" /\ value.s \in Range(DictGet(TYPES(inst.cls), name).enum)
    ELSE TRUE

RECURSIVE GetProperty(_, _, _, _)

\* The generated property getter of a field: it hands _get_property the
\* class of an object-typed field, and nothing for a scalar one.
Getattr(inst, name) ==
    LET d == DictGet(TYPES(inst.cls), name)
    IN  GetProperty(inst, name,
                    IF d.type \in CommonDataTypes THEN "" ELSE d.type, TRUE)

\* _get_property(name, default_value, parent, choice): defaultCls is the
\* class passed as default_value, "" when default_value is None.  The value
\* returned is the one stored under name afterwards.
GetProperty(inst, name, defaultCls, parent) ==
    IF HasKey(inst.props, name) /\ DictGet(inst.props, name).t # "none"
    THEN inst
    ELSE IF defaultCls # ""
    THEN LET chosen == SetChoice(inst, name)
             child == NewObject(defaultCls, parent, None)
             filled == IF HasKey(DEFAULTS(defaultCls), CHOICE)
                       THEN Getattr(child, DictGet(DEFAULTS(defaultCls), CHOICE).s)
                       ELSE child
         IN  [chosen EXCEPT !.props = DictPut(@, name, ObjV(filled))]
    ELSE IF HasKey(DEFAULTS(inst.cls), name)
    THEN LET chosen == SetChoice(inst, name)
         IN  [chosen EXCEPT !.props =
                DictPut(@, name, DictGet(DEFAULTS(inst.cls), name))]
    ELSE [inst EXCEPT !.props = DictPut(@, name, None)]

\* A _set_property that stores the value and checks the required fields at
\* assignment time: a faulty variant, which the property on get and set
\* rejects.
SetProperty_Required(inst, errs, name, value, own) ==
    LET stored == [SetChoice(inst, name) EXCEPT !.props = DictPut(@, name, value)]
        missing == SelectSeq(REQUIRED(inst.cls),
                             LAMBDA r : DictGet(stored.props, r).t = "none")
    IN  [inst |-> stored,
         errs |-> errs \o [i \in 1..Len(missing) |->
                             Err("required", <<missing[i]>>, 0, None, own)]]

\* A _set_property that stores None like any other value: a faulty variant,
\* which the property on defaults rejects.
SetProperty_KeepNone(inst, errs, name, value, own) ==
    IF ~IsEnumValid(inst, name, value)
    THEN [inst |-> inst,
          errs |-> Append(errs, Err("setenum", <<name>>, 0, value, own))]
    ELSE [inst |-> [SetChoice(inst, name) EXCEPT !.props = DictPut(@, name, value)],
          errs |-> errs]

\* _set_property(name, value) without its last step, the notification of
\* the parent (see Notify).
SetProperty(inst, errs, name, value, own) ==
    IF HasKey(DEFAULTS(inst.cls), name) /\ value.t = "none"
    THEN LET chosen == SetChoice(inst, name)
         IN  [inst |-> [chosen EXCEPT !.props =
                          DictPut(@, name, DictGet(DEFAULTS(inst.cls), name))],
              errs |-> errs]
    ELSE IF ~IsEnumValid(inst, name, value)
    THEN [inst |-> inst,
          errs |-> Append(errs, Err("setenum", <<name>>, 0, value, own))]
    ELSE LET chosen == SetChoice(inst, name)
         IN  [inst |-> [chosen EXCEPT !.props = DictPut(@, name, value)],
              errs |-> errs]

\* The last step of _set_property on a child: a child that knows its parent
\* and the choice field it occupies sets the parent's choice to that field.
Notify(parentInst, errs, child, value, own) ==
    IF child.parent /\ child.choice.t # "none" /\ value.t # "none"
    THEN SetProperty(parentInst, errs, CHOICE, child.choice, own)
    ELSE [inst |-> parentInst, errs |-> errs]

-----------------------------------------------------------------------------
\* Python str methods, on sequences of characters.

RECURSIVE Count(_, _)
\* s.count(sub): the non-overlapping occurrences of sub, from the left.
Count(s, sub) ==
    IF Len(sub) > Len(s) THEN 0
    ELSE IF SubSeq(s, 1, Len(sub)) = sub
    THEN 1 + Count(SubSeq(s, Len(sub) + 1, Len(s)), sub)
    ELSE Count(Tail(s), sub)

RECURSIVE Split(_, _, _)
\* s.split(sep, maxsplit) for a one-character sep; maxsplit -1 is no limit.
Split(s, sep, maxsplit) ==
    IF maxsplit = 0 \/ \A i \in 1..Len(s) : s[i] # sep THEN <<s>>
    ELSE LET i == CHOOSE j \in 1..Len(s) :
                    s[j] = sep /\ \A k \in 1..(j - 1) : s[k] # sep
         IN  <<SubSeq(s, 1, i - 1)>>
               \o Split(SubSeq(s, i + 1, Len(s)), sep, maxsplit - 1)

RECURSIVE Strip(_)
\* s.strip(): the whitespace of the alphabet is the space.
Strip(s) ==
    IF s = <<>> THEN s
    ELSE IF Head(s) = " " THEN Strip(Tail(s))
    ELSE IF s[Len(s)] = " " THEN Strip(SubSeq(s, 1, Len(s) - 1))
    ELSE s

\* s[:k] and s[-k:]
Prefix(s, k) == SubSeq(s, 1, IF k < Len(s) THEN k ELSE Len(s))

Suffix(s, k) == SubSeq(s, IF k < Len(s) THEN Len(s) - k + 1 ELSE 1, Len(s))

RECURSIVE Replace(_, _, _)
\* s.replace(sub, rep)
Replace(s, sub, rep) ==
    IF Len(sub) > Len(s) THEN s
    ELSE IF SubSeq(s, 1, Len(sub)) = sub
    THEN rep \o Replace(SubSeq(s, Len(sub) + 1, Len(s)), sub, rep)
    ELSE <<Head(s)>> \o Replace(Tail(s), sub, rep)

HexDigits ==
    <<"0", "1", "2", "3", "4", "5", "6", "7", "8", "9",
      "a", "b", "c", "d", "e", "f">>

DigitVal(c) == (CHOOSE i \in 1..16 : HexDigits[i] = c) - 1

IsDigit(c, base) ==
    \E i \in 1..16 : HexDigits[i] = c /\ i <= base

RECURSIVE DigitsVal(_, _)
DigitsVal(s, base) ==
    IF s = <<>> THEN 0
    ELSE DigitsVal(SubSeq(s, 1, Len(s) - 1), base) * base + DigitVal(s[Len(s)])

\* The digits of a stripped literal, after its optional sign.
Unsigned(s) == IF s # <<>> /\ Head(s) \in {"-", "+"} THEN Tail(s) ELSE s

\* int(s, base) of a str whose characters are digits, lower-case letters,
\* signs, separators and spaces: surrounding whitespace is dropped, and
\* anything but an optional sign and a non-empty run of digits of the base
\* is a ValueError.
IntParses(s, base) ==
    /\ Unsigned(Strip(s)) # <<>>
    /\ \A i \in 1..Len(Unsigned(Strip(s))) : IsDigit(Unsigned(Strip(s))[i], base)

IntOf(s, base) ==
    IF Head(Strip(s)) = "-"
    THEN 0 - DigitsVal(Unsigned(Strip(s)), base)
    ELSE DigitsVal(Unsigned(Strip(s)), base)

RECURSIVE IntToStr(_)
\* str(n) of an int n.
IntToStr(n) ==
    IF n < 0 THEN <<"-">> \o IntToStr(0 - n)
    ELSE IF n < 10 THEN <<HexDigits[n + 1]>>
    ELSE IntToStr(n \div 10) \o <<HexDigits[(n % 10) + 1]>>

-----------------------------------------------------------------------------
\* OpenApiValidator.  A validator yields [n, exc]: the number of times it
\* appends its message to the error list, and whether it raises.

IsStr(v) == v.t = "str"

\* isinstance(value, int): a bool is an int.
IsInt(v) == v.t \in {"int", "bool"}

Outcome(n, exc) == [n |-> n, exc |-> exc]

\* all([0 <= int(oct, base) <= hi for oct in pieces]) is True and no int()
\* raised; a maxlen other than 0 adds 1 <= len(oct) <= maxlen.
AllPieces(pieces, base, hi, maxlen) ==
    \A i \in 1..Len(pieces) :
        /\ IntParses(pieces[i], base)
        /\ 0 <= IntOf(pieces[i], base)
        /\ IntOf(pieces[i], base) <= hi
        /\ maxlen # 0 => Len(pieces[i]) <= maxlen

validate_mac(mac) ==
    LET first == IF ~IsStr(mac) \/ Count(mac.s, <<" ">>) # 0 THEN 1 ELSE 0
        rest ==
            CASE IsStr(mac) ->
                   (IF Len(mac.s) # 17 THEN 1 ELSE 0)
                   + (IF AllPieces(Split(mac.s, ":", -1), 16, 255, 0)
                      THEN 0 ELSE 1)
              [] mac.t \in {"list", "dict"} ->
                   (IF Len(mac.o) # 17 THEN 1 ELSE 0) + 1
              [] OTHER -> 1
    IN  Outcome(first + rest, FALSE)

validate_ipv4(ip) ==
    IF ~IsStr(ip) THEN Outcome(1, TRUE)
    ELSE Outcome((IF Count(ip.s, <<" ">>) # 0 THEN 1 ELSE 0)
                 + (IF Len(Split(ip.s, ".", -1)) # 4 THEN 1 ELSE 0)
                 + (IF AllPieces(Split(ip.s, ".", 3), 10, 255, 0)
                    THEN 0 ELSE 1), FALSE)

validate_ipv6(v) ==
    IF ~IsStr(v) THEN Outcome(1, FALSE)
    ELSE LET ip == Strip(v.s)
             expanded ==
                 IF Prefix(ip, 2) = <<":", ":">>
                 THEN Replace(ip, <<":", ":">>, <<"0", ":">>)
                 ELSE IF Suffix(ip, 2) = <<":", ":">>
                 THEN Replace(ip, <<":", ":">>, <<":", "0">>)
                 ELSE Replace(ip, <<":", ":">>, <<":", "0", ":">>)
         IN  IF \/ Count(ip, <<" ">>) > 0
                \/ Count(ip, <<":">>) > 7
                \/ Count(ip, <<":", ":">>) > 1
                \/ Count(ip, <<":", ":", ":">>) > 0
             THEN Outcome(1, FALSE)
             ELSE IF ip = <<>> THEN Outcome(0, TRUE)
             ELSE IF \/ (ip[1] = ":" /\ Prefix(ip, 2) # <<":", ":">>)
                     \/ (ip[Len(ip)] = ":"
                         /\ Suffix(ip, 2) # <<":", ":">>)
             THEN Outcome(1, FALSE)
             ELSE IF Count(ip, <<":", ":">>) = 0 /\ Count(ip, <<":">>) # 7
             THEN Outcome(1, FALSE)
             ELSE IF ip = <<":", ":">> THEN Outcome(0, FALSE)
             ELSE IF AllPieces(Split(expanded, ":", -1), 16, 65535, 4)
             THEN Outcome(0, FALSE)
             ELSE Outcome(1, FALSE)

validate_hex(hex) ==
    IF ~IsStr(hex) THEN Outcome(2, FALSE)
    ELSE Outcome(IF IntParses(hex.s, 16) THEN 0 ELSE 1, FALSE)

validate_integer(value) == Outcome(IF IsInt(value) THEN 0 ELSE 1, FALSE)

validate_float(value) ==
    Outcome(IF IsInt(value) \/ value.t = "float" THEN 0 ELSE 1, FALSE)

validate_string(value) == Outcome(IF IsStr(value) THEN 0 ELSE 1, FALSE)

validate_bool(value) == Outcome(IF value.t = "bool" THEN 0 ELSE 1, FALSE)

validate_binary(value) ==
    IF ~IsStr(value) THEN Outcome(1, FALSE)
    ELSE IF \E i \in 1..Len(value.s) : ~IsDigit(value.s[i], 10)
    THEN Outcome(0, TRUE)
    ELSE Outcome(IF \A i \in 1..Len(value.s) : value.s[i] \in {"0", "1"}
                 THEN 0 ELSE 1, FALSE)

\* validate_min_max(path, value, min, max): min and max are None or ints.
\* Ordering a value that is no number against an int is a TypeError.
validate_min_max(value, min, max) ==
    LET measured == IF IsStr(value) THEN IntV(Len(value.s)) ELSE value
        number == measured.t \in {"int", "bool", "float"}
        below == min.t # "none" /\ measured.n < min.n
        above == max.t # "none" /\ measured.n > max.n
    IN  IF min.t = "none" /\ max.t = "none" THEN Outcome(0, FALSE)
        ELSE IF ~number THEN Outcome(0, TRUE)
        ELSE Outcome(IF below \/ above THEN 1 ELSE 0, FALSE)

\* The validate_<name> methods that take (path, value).
ScalarValidators ==
    {"mac", "ipv4", "ipv6", "hex", "integer", "float", "string", "bool",
     "binary"}

Validator(name, value) ==
    CASE name = "mac" -> validate_mac(value)
      [] name = "ipv4" -> validate_ipv4(value)
      [] name = "ipv6" -> validate_ipv6(value)
      [] name = "hex" -> validate_hex(value)
      [] name = "integer" -> validate_integer(value)
      [] name = "float" -> validate_float(value)
      [] name = "string" -> validate_string(value)
      [] name = "bool" -> validate_bool(value)
      [] name = "binary" -> validate_binary(value)

\* The messages a check appends: n times the message of the validator kind
\* about item idx of the value (0: the value itself).
Msgs(kind, idx, n) == [i \in 1..n |-> [kind |-> kind, idx |-> idx]]

Checked(msgs, exc) == [msgs |-> msgs, exc |-> exc]

\* v_obj(path, value), then validate_min_max for the three ranged types.
CheckRanged(name, value, idx, min, max) ==
    Bind(Validator(name, value), LAMBDA o :
        IF o.exc \/ name \notin {"integer", "string", "float"}
        THEN Checked(Msgs(name, idx, o.n), o.exc)
        ELSE Bind(validate_min_max(value, min, max), LAMBDA m :
                Checked(Msgs(name, idx, o.n) \o Msgs("min_max", 0, m.n), m.exc)))

RECURSIVE ListItems(_, _, _, _, _)
\* the loop of validate_list, from item i
ListItems(items, i, itemtype, min, max) ==
    IF i > Len(items) THEN Checked(<<>>, FALSE)
    ELSE Bind(CheckRanged(itemtype, items[i], i, min, max), LAMBDA c :
            IF c.exc THEN c
            ELSE Bind(ListItems(items, i + 1, itemtype, min, max), LAMBDA rest :
                    Checked(c.msgs \o rest.msgs, rest.exc)))

\* validate_list(path, value, itemtype, min, max)
validate_list(value, itemtype, min, max) ==
    IF value.t # "list" THEN Checked(<<>>, FALSE)
    ELSE IF itemtype \notin ScalarValidators THEN Checked(<<>>, TRUE)
    ELSE ListItems(value.o, 1, itemtype, min, max)

TypeMap(type) ==
    CASE type = "int" -> "integer"
      [] type = "str" -> "string"
      [] type = "int64" -> "integer"
      [] type = "int32" -> "integer"
      [] type = "double" -> "float"
      [] OTHER -> type

\* types_validation(value, type_, path, itemtype, min, max)
types_validation(value, type, itemtype, min, max) ==
    IF TypeMap(type) = "list"
    THEN validate_list(value, TypeMap(itemtype), min, max)
    ELSE IF TypeMap(type) \notin ScalarValidators THEN Checked(<<>>, TRUE)
    ELSE CheckRanged(TypeMap(type), value, 0, min, max)

-----------------------------------------------------------------------------
\* Validation of an instance.  A walk yields [errs, exc]: the error list
\* afterwards and whether an exception other than the aggregate one left it.
Walked(errs, exc) == [errs |-> errs, exc |-> exc]

\* _validate_required(path)
ValidateRequired(inst, errs, path, own) ==
    LET missing == SelectSeq(REQUIRED(inst.cls),
                             LAMBDA r : DictGet(inst.props, r).t = "none")
    IN  errs \o [i \in 1..Len(missing) |->
                   Err("required", Append(path, missing[i]), 0, None, own)]

ErrsOf(c, path, value, own) ==
    [i \in 1..Len(c.msgs) |-> Err(c.msgs[i].kind, path, c.msgs[i].idx, value, own)]

\* _validate_types(path, property_name, property_value)
ValidateTypes(inst, errs, path, name, value, own) ==
    IF ~HasKey(TYPES(inst.cls), name) \/ value.t = "none"
    THEN Walked(errs, FALSE)
    ELSE Bind(DictGet(TYPES(inst.cls), name), LAMBDA d :
         Bind(IF d.hasenum /\ ~(IsStr(value) /\ value.s \in Range(d.enum))
              THEN Append(errs, Err("enum", path, 0, value, own))
              ELSE errs, LAMBDA e1 :
         Bind(IF d.type \in CommonDataTypes /\ d.format = ""
              THEN types_validation(value, d.type, d.itemtype, d.min, d.max)
              ELSE Checked(<<>>, FALSE), LAMBDA c2 :
         IF c2.exc THEN Walked(e1 \o ErrsOf(c2, path, value, own), TRUE)
         ELSE
         Bind(IF /\ d.type \notin CommonDataTypes
                 /\ ~(value.t = "obj" /\ value.o[1].cls = d.type)
              THEN Append(e1 \o ErrsOf(c2, path, value, own),
                          Err("class", path, 0, value, own))
              ELSE e1 \o ErrsOf(c2, path, value, own), LAMBDA e3 :
         Bind(IF d.format # ""
              THEN types_validation(value,
                                    IF d.type = "list" THEN "list" ELSE d.format,
                                    d.format, d.min, d.max)
              ELSE Checked(<<>>, FALSE), LAMBDA c4 :
         Walked(e3 \o ErrsOf(c4, path, value, own), c4.exc))))))

RECURSIVE ValidateWalk(_, _, _, _)
RECURSIVE ValidateItems(_, _, _, _, _)

\* the loop of _validate over the items of the property store, from item i
ValidateItems(inst, errs, path, own, i) ==
    IF i > Len(inst.props) THEN Walked(errs, FALSE)
    ELSE Bind(inst.props[i][1], LAMBDA key :
         Bind(inst.props[i][2], LAMBDA value :
         Bind(IF value.t = "obj"
              THEN ValidateWalk(value.o[1], errs, Append(path, key), own)
              ELSE Walked(errs, FALSE), LAMBDA nested :
         IF nested.exc THEN nested
         ELSE
         Bind(ValidateTypes(inst, nested.errs, Append(path, key), key, value,
                            own), LAMBDA typed :
         IF typed.exc THEN typed
         ELSE ValidateItems(inst, typed.errs, path, own, i + 1)))))

\* _validate(path, skip_exception=True): the walk without the final raise
ValidateWalk(inst, errs, path, own) ==
    ValidateItems(inst, ValidateRequired(inst, errs, path, own), path, own, 1)

\* The outcome of a call that may raise: exc is "" (returned), "validation"
\* (the aggregate exception of _raise_validation, carrying msgs) or "error"
\* (any other exception); errs is the error list afterwards.
Raised(errs, exc, msgs) == [errs |-> errs, exc |-> exc, msgs |-> msgs]

\* _raise_validation
RaiseValidation(errs) ==
    IF Len(errs) > 0 THEN Raised(<<>>, "validation", errs)
    ELSE Raised(errs, "", <<>>)

\* _validate(path): the walk, then _raise_validation
Validate(inst, errs, path, own) ==
    Bind(ValidateWalk(inst, errs, path, own), LAMBDA w :
        IF w.exc THEN Raised(w.errs, "error", <<>>)
        ELSE RaiseValidation(w.errs))

-----------------------------------------------------------------------------
\* Codec.

\* str(value) and int(value) of the int64 wire coercion; int() of a value
\* that is no int and no str of digits raises.
\* No wire coercion at all: a faulty variant of str(value), which the
\* property on 64-bit integers rejects.
PyStr_Identity(value) == value

PyStr(value) ==
    IF value.t = "int" THEN StrV(IntToStr(value.n))
    ELSE IF value.t = "bool"
    THEN StrV(IF value.n = 1 THEN <<"T", "r", "u", "e">>
                             ELSE <<"F", "a", "l", "s", "e">>)
    ELSE value

IntRaises(value) ==
    ~(IsInt(value) \/ value.t = "float" \/ (IsStr(value) /\ IntParses(value.s, 10)))

PyInt(value) == IF IsStr(value) THEN IntV(IntOf(value.s, 10)) ELSE IntV(value.n)

Encoded(doc, r) == [doc |-> doc, errs |-> r.errs, exc |-> r.exc, msgs |-> r.msgs]

RECURSIVE Encode(_, _, _)
RECURSIVE EncodeItems(_, _, _, _, _)

RECURSIVE EncodeItems_KeepNone(_, _, _, _, _)
\* A loop of _encode that also writes the fields holding None: a faulty
\* variant, which the property on sparse documents rejects.
EncodeItems_KeepNone(inst, errs, own, i, output) ==
    IF i > Len(inst.props) THEN Encoded(output, Raised(errs, "", <<>>))
    ELSE IF inst.props[i][2].t = "obj"
    THEN Bind(Encode(inst.props[i][2].o[1], errs, own), LAMBDA sub :
           IF sub.exc # "" THEN sub
           ELSE EncodeItems_KeepNone(inst, sub.errs, own, i + 1,
                    DictPut(output, inst.props[i][1], DictV(sub.doc))))
    ELSE EncodeItems_KeepNone(inst, errs, own, i + 1,
                    DictPut(output, inst.props[i][1], inst.props[i][2]))

\* the loop of _encode over the items of the property store, from item i
EncodeItems(inst, errs, own, i, output) ==
    IF i > Len(inst.props) THEN Encoded(output, Raised(errs, "", <<>>))
    ELSE Bind(inst.props[i][1], LAMBDA key :
         Bind(inst.props[i][2], LAMBDA value :
         IF value.t = "obj"
         THEN Bind(Encode(value.o[1], errs, own), LAMBDA sub :
                IF sub.exc # "" THEN sub
                ELSE EncodeItems(inst, sub.errs, own, i + 1,
                                 DictPut(output, key, DictV(sub.doc))))
         ELSE IF value.t = "none"
         THEN EncodeItems(inst, errs, own, i + 1, output)
         ELSE EncodeItems(inst, errs, own, i + 1,
                 DictPut(output, key,
                    IF /\ HasKey(TYPES(inst.cls), key)
                       /\ DictGet(TYPES(inst.cls), key).format = "int64"
                    THEN PyStr(value)
                    ELSE IF /\ HasKey(TYPES(inst.cls), key)
                            /\ DictGet(TYPES(inst.cls), key).itemformat = "int64"
                    THEN ListV([j \in 1..Len(value.o) |-> PyStr(value.o[j])])
                    ELSE value))))

\* _encode(): validate (raising), then the document of the stored fields
Encode(inst, errs, own) ==
    Bind(Validate(inst, errs, <<JSON_NAME(inst.cls)>>, own), LAMBDA v :
        IF v.exc # "" THEN Encoded(<<>>, v)
        ELSE EncodeItems(inst, v.errs, own, 1, <<>>))

\* The outcome of _decode: the instance, the error list, the exception and
\* the nesting depth of the instance whose _decode raised it.
Decoded(inst, r, depth) ==
    [inst |-> inst, errs |-> r.errs, exc |-> r.exc, msgs |-> r.msgs,
     depth |-> depth]

RECURSIVE Decode(_, _, _, _, _)
RECURSIVE DecodeItems(_, _, _, _, _, _)


\* the conversion and the store that end one round of the loop of _decode
DecodeStore(inst, obj, errs, own, depth, i, name, value) ==
    Bind(DictGet(TYPES(inst.cls), name), LAMBDA d :
    Bind(SetChoice(inst, name), LAMBDA chosen :
        IF \/ d.format = "int64" /\ IntRaises(value)
           \/ d.itemformat = "int64"
              /\ (value.t # "list"
                  \/ \E j \in 1..Len(value.o) : IntRaises(value.o[j]))
        THEN Decoded(chosen, Raised(errs, "error", <<>>), depth)
        ELSE DecodeItems(
                [chosen EXCEPT !.props = DictPut(@, name,
                    IF d.format = "int64" THEN PyInt(value)
                    ELSE IF d.itemformat = "int64"
                    THEN ListV([j \in 1..Len(value.o) |-> PyInt(value.o[j])])
                    ELSE value)],
                obj, errs, own, depth, i + 1)))

\* A loop of _decode that stores the keys of the document the type does not
\* declare instead of skipping them: a faulty variant, which the property on
\* declared fields rejects.
DecodeItems_NoSkip(inst, obj, errs, own, depth, i) ==
    IF i > Len(obj)
    THEN Decoded(inst, Validate(inst, errs, <<JSON_NAME(inst.cls)>>, own), depth)
    ELSE Bind(obj[i][1], LAMBDA name :
         Bind(obj[i][2], LAMBDA given :
         IF ~HasKey(TYPES(inst.cls), name)
         THEN DecodeItems([inst EXCEPT !.props = DictPut(@, name, given)],
                          obj, errs, own, depth, i + 1)
         ELSE IF given.t = "dict"
         THEN IF DictGet(TYPES(inst.cls), name).type \in CommonDataTypes
              THEN Decoded(inst, Raised(errs, "error", <<>>), depth)
              ELSE Bind(Decode(NewObject(DictGet(TYPES(inst.cls), name).type,
                                         TRUE, None),
                               given.o, errs, own, depth + 1), LAMBDA child :
                     IF child.exc # "" THEN [child EXCEPT !.inst = inst]
                     ELSE DecodeStore(inst, obj, child.errs, own, depth, i,
                                      name, ObjV(child.inst)))
         ELSE DecodeStore(inst, obj, errs, own, depth, i, name,
                          IF HasKey(DEFAULTS(inst.cls), name) /\ given.t = "none"
                          THEN DictGet(DEFAULTS(inst.cls), name)
                          ELSE given)))

\* the loop of _decode over the items of the document, from item i
DecodeItems(inst, obj, errs, own, depth, i) ==
    IF i > Len(obj)
    THEN Decoded(inst, Validate(inst, errs, <<JSON_NAME(inst.cls)>>, own), depth)
    ELSE Bind(obj[i][1], LAMBDA name :
         Bind(obj[i][2], LAMBDA given :
         IF ~HasKey(TYPES(inst.cls), name)
         THEN DecodeItems(inst, obj, errs, own, depth, i + 1)
         ELSE IF given.t = "dict"
         THEN IF DictGet(TYPES(inst.cls), name).type \in CommonDataTypes
              THEN Decoded(inst, Raised(errs, "error", <<>>), depth)
              ELSE Bind(Decode(NewObject(DictGet(TYPES(inst.cls), name).type,
                                         TRUE, None),
                               given.o, errs, own, depth + 1), LAMBDA child :
                     IF child.exc # "" THEN [child EXCEPT !.inst = inst]
                     ELSE DecodeStore(inst, obj, child.errs, own, depth, i,
                                      name, ObjV(child.inst)))
         ELSE DecodeStore(inst, obj, errs, own, depth, i, name,
                          IF HasKey(DEFAULTS(inst.cls), name) /\ given.t = "none"
                          THEN DictGet(DEFAULTS(inst.cls), name)
                          ELSE given)))

\* _decode(obj) of the instance at nesting depth depth
Decode(inst, obj, errs, own, depth) ==
    DecodeItems(inst, obj, errs, own, depth, 1)

\* The structure __eq__ compares: the fields that hold a value, nested
\* instances included, whatever their order in the property store.
RECURSIVE Canon(_)
Canon(inst) ==
    {<<inst.props[i][1],
       IF inst.props[i][2].t = "obj"
       THEN [t |-> "obj", n |-> 0, s |-> <<>>, o |-> <<Canon(inst.props[i][2].o[1])>>]
       ELSE inst.props[i][2]>> :
        i \in {j \in 1..Len(inst.props) : inst.props[j][2].t # "none"}}

-----------------------------------------------------------------------------
\* OpenApiIter.  A container holds a reference to its list object (_items)
\* and its cursor (_index); heap maps a reference to the items of the list,
\* so that two containers on one list are told from two containers on equal
\* lists.  "c" is a container, "s" the container its last slice returned
\* (ref 0: none yet).  trav holds the loops that traverse "c": whether one
\* was started (on), whether it has ended (done), the items it was given
\* (out), whether the container was not mutated since it started (intact)
\* and whether no other loop stepped since it started (solo).  res is the
\* outcome of the last operation, by the loop that made it (0: none).

Idle == [on |-> FALSE, done |-> FALSE, out |-> <<>>, intact |-> FALSE, solo |-> FALSE]

IterRes(op, on, exc, ret) ==
    [op |-> op, on |-> on, exc |-> exc, ret |-> ret, by |-> 0]

\* OpenApiIter.__init__ of "c": an empty list and the cursor at -1.
NewIter ==
    [heap |-> <<<<>>, <<>>>>,
     ref |-> [k \in {"c", "s"} |-> IF k = "c" THEN 1 ELSE 0],
     index |-> [k \in {"c", "s"} |-> 0 - 1],
     trav |-> <<Idle, Idle>>,
     res |-> IterRes("init", "c", "", <<>>)]

\* No transport was created yet.
NoTransport == [made |-> FALSE, verify |-> FALSE, location |-> "", log |-> <<>>]

-----------------------------------------------------------------------------
\* The instances operations address: the two roots and the child that
\* instance 1 holds in its object field o.
Targets == {"r1", "c1", "r2"}

ExistsIn(o, tgt) == tgt # "c1" \/ DictGet(o[1].props, F_O).t = "obj"

InstIn(o, tgt) ==
    CASE tgt = "r1" -> o[1]
      [] tgt = "r2" -> o[2]
      [] tgt = "c1" -> DictGet(o[1].props, F_O).o[1]

Exists(tgt) == ExistsIn(objs, tgt)

Inst(tgt) == InstIn(objs, tgt)

Own(tgt) == IF tgt = "r2" THEN 2 ELSE 1

WithInst(tgt, inst) ==
    CASE tgt = "r1" -> [objs EXCEPT ![1] = inst]
      [] tgt = "r2" -> [objs EXCEPT ![2] = inst]
      [] tgt = "c1" -> [objs EXCEPT ![1].props = DictPut(@, F_O, ObjV(inst))]

Fields(tgt) == Keys(TYPES(Inst(tgt).cls))

\* The values a caller assigns to a field: None, a well-typed value, and a
\* value validation rejects.
SetValues(name) ==
    CASE name = CHOICE -> {None, StrV(F_A), StrV(F_B), StrV(F_O), StrV(<<"z">>)}
      [] name = F_A -> {None, StrV(<<"s">>), IntV(5)}
      [] name = F_B -> {None, StrV(<<"x">>), StrV(<<"q">>)}
      [] name = F_N -> {None, StrV(<<"m">>)}
      [] name = F_R -> {None, IntV(12)}
      [] name = F_I -> {None, StrV(<<"1", ".", "1", ".", "1", ".", "1">>), IntV(5)}
      [] OTHER -> {}

\* The documents a caller hands to deserialize.
Docs ==
    LET m == StrV(<<"m">>)
        q == StrV(<<"q">>)
    IN  { << <<F_N, m>> >>,
          << <<F_B, q>> >>,
          << <<F_A, StrV(<<"s">>)>>, <<F_B, StrV(<<"x">>)>>, <<F_N, m>> >>,
          << <<<<"u">>, m>>, <<F_A, None>> >>,
          << <<F_O, DictV(<< <<F_N, m>> >>)>>, <<F_R, StrV(<<"1", "2">>)>> >>,
          << <<F_O, DictV(<< <<F_B, q>> >>)>>, <<F_B, q>> >>,
          << <<F_B, q>>, <<F_A, IntV(5)>>, <<F_N, m>> >>,
          << <<F_R, None>> >> }

\* What the last operation was and how it ended: the exception it raised
\* (see Raised) with the messages it carried, the value it returned, the
\* messages it appended to the error list, the nesting depth of the
\* instance whose call raised, and the value a set was given.
Result(op, tgt, name, exc, msgs, ret, added) ==
    [op |-> op, tgt |-> tgt, name |-> name, exc |-> exc, msgs |-> msgs,
     ret |-> ret, added |-> added, depth |-> 0, arg |-> None]

\* The outcome of the last call of a validator on its own; args holds the
\* item type and the bounds validate_list was given.
Applied(op, value, n, exc) ==
    [op |-> op, value |-> value, n |-> n, exc |-> exc, args |-> <<>>]

Init ==
    /\ objs = [i \in {1, 2} |->
                 NewObject(IF i = 1 THEN "T" ELSE "K", FALSE, None)]
    /\ errors = <<>>
    /\ last = Result("init", "r1", <<>>, "", <<>>, None, <<>>)
    /\ steps = 0
    /\ vres = Applied("init", None, 0, FALSE)
    /\ cont = NewIter
    /\ http = NoTransport

\* x.name: the generated getter, which materialises the default.
Get(tgt, name) ==
    /\ steps < MaxSteps
    /\ Exists(tgt)
    /\ name \in Fields(tgt)
    /\ \E inst \in {Getattr(Inst(tgt), name)} :
         /\ objs' = WithInst(tgt, inst)
         /\ last' = Result("get", tgt, name, "", <<>>,
                           DictGet(inst.props, name), <<>>)
    /\ steps' = steps + 1
    /\ UNCHANGED <<errors, vres, cont, http>>

\* _set_property(name, value) on the instance at tgt, the notification of
\* its parent included: the instances and the error list afterwards.
SetAt(tgt, name, value) ==
    Bind(SetProperty(Inst(tgt), errors, name, value, Own(tgt)), LAMBDA r :
        IF tgt = "c1"
        THEN Bind(Notify(WithInst(tgt, r.inst)[1], r.errs, r.inst, value,
                         Own(tgt)), LAMBDA n :
                [objs |-> [objs EXCEPT ![1] = n.inst], errs |-> n.errs])
        ELSE [objs |-> WithInst(tgt, r.inst), errs |-> r.errs])

\* x.name = value: the generated setter.
Set(tgt, name, value) ==
    /\ steps < MaxSteps
    /\ Exists(tgt)
    /\ name \in Fields(tgt) \ {F_O}
    /\ value \in SetValues(name)
    /\ \E r \in {SetAt(tgt, name, value)} :
         /\ Len(r.errs) <= MaxErrors
         /\ objs' = r.objs
         /\ errors' = r.errs
         /\ last' = [Result("set", tgt, name, "", <<>>, None,
                            SubSeq(r.errs, Len(errors) + 1, Len(r.errs)))
                       EXCEPT !.arg = value]
    /\ steps' = steps + 1
    /\ UNCHANGED <<vres, cont, http>>

\* The outcome of get: the instance afterwards, the value returned and the
\* exception raised ("" for none).
Got(inst, ret, exc) == [inst |-> inst, ret |-> ret, exc |-> exc]

\* get(name, with_default): the stored value if there is one; otherwise,
\* with_default, the getter is called, the choice recorded before is put
\* back and the field is popped from the store.  A name that is no field
\* has no getter; a field that is no longer stored cannot be popped.
get(inst, name, with_default) ==
    IF DictGet(inst.props, name).t # "none"
    THEN Got(inst, DictGet(inst.props, name), "")
    ELSE IF ~with_default THEN Got(inst, None, "")
    ELSE IF ~HasKey(TYPES(inst.cls), name) THEN Got(inst, None, "AttributeError")
    ELSE Bind(DictGet(inst.props, CHOICE), LAMBDA choice :
         Bind(Getattr(inst, name).props, LAMBDA fetched :
         Bind(IF ~HasKey(TYPES(inst.cls), CHOICE) THEN fetched
              ELSE IF choice.t = "none" /\ HasKey(fetched, CHOICE)
              THEN DictPop(fetched, CHOICE)
              ELSE DictPut(fetched, CHOICE, choice), LAMBDA restored :
         IF ~HasKey(restored, name)
         THEN Got([inst EXCEPT !.props = restored], None, "KeyError")
         ELSE Got([inst EXCEPT !.props = DictPop(restored, name)],
                  DictGet(restored, name), ""))))

\* x.get(name, with_default), with a field of x or another name.
GetOp(tgt, name, with_default) ==
    /\ steps < MaxSteps
    /\ Exists(tgt)
    /\ name \in Fields(tgt) \cup {<<"z">>}
    /\ \E r \in {get(Inst(tgt), name, with_default)} :
         /\ objs' = WithInst(tgt, r.inst)
         /\ last' = [Result("getvalue", tgt, name, r.exc, <<>>, r.ret, <<>>)
                       EXCEPT !.arg = BoolV(IF with_default THEN 1 ELSE 0)]
    /\ steps' = steps + 1
    /\ UNCHANGED <<errors, vres, cont, http>>

\* x._set_choice(name), with a member of a choice group or another name.
SetChoiceOp(tgt, name) ==
    /\ steps < MaxSteps
    /\ Exists(tgt)
    /\ name \in {F_A, F_B, F_O, <<"z">>}
    /\ objs' = WithInst(tgt, SetChoice(Inst(tgt), name))
    /\ last' = Result("setchoice", tgt, name, "", <<>>, None, <<>>)
    /\ steps' = steps + 1
    /\ UNCHANGED <<errors, vres, cont, http>>

\* x.validate()
ValidateOp(tgt) ==
    /\ steps < MaxSteps
    /\ Exists(tgt)
    /\ \E r \in {Validate(Inst(tgt), errors, <<JSON_NAME(Inst(tgt).cls)>>, Own(tgt))} :
         /\ Len(r.errs) <= MaxErrors
         /\ errors' = r.errs
         /\ last' = Result("validate", tgt, <<>>, r.exc, r.msgs, None, <<>>)
    /\ steps' = steps + 1
    /\ UNCHANGED <<objs, vres, cont, http>>

\* x.serialize("dict")
EncodeOp(tgt) ==
    /\ steps < MaxSteps
    /\ Exists(tgt)
    /\ \E r \in {Encode(Inst(tgt), errors, Own(tgt))} :
         /\ Len(r.errs) <= MaxErrors
         /\ errors' = r.errs
         /\ last' = Result("encode", tgt, <<>>, r.exc, r.msgs,
                           IF r.exc = "" THEN DictV(r.doc) ELSE None, <<>>)
    /\ steps' = steps + 1
    /\ UNCHANGED <<objs, vres, cont, http>>

\* x.deserialize(doc)
DecodeOp(tgt, doc) ==
    /\ steps < MaxSteps
    /\ Exists(tgt)
    /\ \E r \in {Decode(Inst(tgt), doc, errors, Own(tgt), 0)} :
         /\ Len(r.errs) <= MaxErrors
         /\ objs' = WithInst(tgt, r.inst)
         /\ errors' = r.errs
         /\ last' = [Result("decode", tgt, <<>>, r.exc, r.msgs, None, <<>>)
                       EXCEPT !.depth = r.depth]
    /\ steps' = steps + 1
    /\ UNCHANGED <<vres, cont, http>>

\* x.__class__().deserialize(x.serialize("dict")): the round trip of x
\* through a document into a fresh instance, which is returned.
RoundTrip(tgt) ==
    /\ steps < MaxSteps
    /\ Exists(tgt)
    /\ \E e \in {Encode(Inst(tgt), errors, Own(tgt))} :
         \E r \in {IF e.exc # ""
                   THEN Decoded(Inst(tgt), e, 0)
                   ELSE Decode(NewObject(Inst(tgt).cls, FALSE, None), e.doc,
                               e.errs, Own(tgt), 0)} :
           /\ Len(r.errs) <= MaxErrors
           /\ errors' = r.errs
           /\ last' = Result("roundtrip", tgt, <<>>, r.exc, r.msgs,
                             IF r.exc = "" THEN ObjV(r.inst) ELSE None, <<>>)
    /\ steps' = steps + 1
    /\ UNCHANGED <<objs, vres, cont, http>>

Next ==
    \/ \E tgt \in Targets : EncodeOp(tgt)
    \/ \E tgt \in Targets, doc \in Docs : DecodeOp(tgt, doc)
    \/ \E tgt \in Targets : RoundTrip(tgt)
    \/ \E tgt \in Targets : ValidateOp(tgt)
    \/ \E tgt \in Targets, name \in Keys(TYPES("T")) \cup Keys(TYPES("K")) :
         Get(tgt, name)
    \/ \E tgt \in Targets, name \in Keys(TYPES("T")) \cup Keys(TYPES("K")) :
         \E value \in SetValues(name) : Set(tgt, name, value)
    \/ \E tgt \in Targets,
          name \in {F_A, F_B, F_O, <<"z">>} :
         SetChoiceOp(tgt, name)
    \/ \E tgt \in Targets,
          name \in Keys(TYPES("T")) \cup Keys(TYPES("K")) \cup {<<"z">>},
          with_default \in BOOLEAN :
         GetOp(tgt, name, with_default)

Spec == Init /\ [][Next]_vars

-----------------------------------------------------------------------------
\* The validators on their own: each is called with values of every Python
\* type, the strs being those of at most MaxStrLen characters of an alphabet
\* and a few well-formed addresses.
Alphabet == {"0", "1", "2", "a", "g", ":", ".", " "}

Strs == UNION {[1..n -> Alphabet] : n \in 0..MaxStrLen}

Addresses ==
    { <<"1", "0", ".", "0", ".", "0", ".", "1">>,
      <<"1", "0", ".", "0", ".", "0", ".", "2", "5", "6">>,
      <<"a", "a", ":", "b", "b", ":", "c", "c", ":", "d", "d", ":", "e", "e",
        ":", "f", "f">>,
      <<"a", "a", ":", "b", "b", ":", "c", "c">>,
      <<"0", "0", "0", "0", "0", "0", "0", "0", ":", "0", "0", "0", "0", "0",
        "0", "0", "0">>,
      <<"0", ":", "0", ":", "0", ":", "0", ":", "0", ":", "0", ":", "0", ":",
        "0", ":", "0">>,
      <<"a", "a", ":", "b", "b", ":", "c", "c", ":", "d", "d", ":", "e", "e",
        ":", "g", "g">>,
      <<"a", "a", ":", "b", "b", ":", "c", "c", ":", "d", "d", ":", "e", ":",
        "f", "f", "f">>,
      <<"1", ":", "2", ":", "3", ":", "4", ":", "5", ":", "6", ":", "7", ":", "8">>,
      <<"1", ":", "2", ":", "3", ":", "4", ":", "5", ":", "6", ":", "7", ":", "8",
        ":", "9">> }

Scalars ==
    {None, IntV(0), IntV(5), BoolV(1), FloatV(2)}
        \cup {StrV(str) : str \in Strs \cup Addresses}

Lists ==
    {ListV(<<>>), ListV(<<IntV(5)>>), ListV(<<IntV(0), StrV(<<"a">>)>>),
     ListV(<<None, IntV(5)>>)}

Limits == {None, IntV(1)}

\* A value is chosen, and one validator is called with it.
InitV ==
    /\ objs = [i \in {1, 2} |->
                 NewObject(IF i = 1 THEN "T" ELSE "K", FALSE, None)]
    /\ errors = <<>>
    /\ last = Result("init", "r1", <<>>, "", <<>>, None, <<>>)
    /\ steps = 0
    /\ vres \in {Applied("init", value, 0, FALSE) : value \in Scalars \cup Lists}
    /\ cont = NewIter
    /\ http = NoTransport

\* validate_<name>(path, value)
ApplyScalar(name) ==
    /\ vres.op = "init"
    /\ name \in ScalarValidators
    /\ \E o \in {Validator(name, vres.value)} :
         vres' = Applied(name, vres.value, o.n, o.exc)
    /\ UNCHANGED <<objs, errors, last, steps, cont, http>>

\* validate_min_max(path, value, min, max)
ApplyMinMax(min, max) ==
    /\ vres.op = "init"
    /\ min \in Limits
    /\ max \in Limits
    /\ \E o \in {validate_min_max(vres.value, min, max)} :
         vres' = Applied("min_max", vres.value, o.n, o.exc)
    /\ UNCHANGED <<objs, errors, last, steps, cont, http>>

\* validate_list(path, value, itemtype, min, max)
ApplyList(itemtype, min, max) ==
    /\ vres.op = "init"
    /\ itemtype \in ScalarValidators
    /\ min \in Limits
    /\ max \in Limits
    /\ \E c \in {validate_list(vres.value, itemtype, min, max)} :
         vres' = [Applied("list", vres.value, Len(c.msgs), c.exc)
                    EXCEPT !.args = <<itemtype, min, max>>]
    /\ UNCHANGED <<objs, errors, last, steps, cont, http>>

NextV ==
    \/ \E name \in ScalarValidators : ApplyScalar(name)
    \/ \E min \in Limits, max \in Limits : ApplyMinMax(min, max)
    \/ \E itemtype \in ScalarValidators, min \in Limits, max \in Limits :
         ApplyList(itemtype, min, max)

SpecV == InitV /\ [][NextV]_vars

-----------------------------------------------------------------------------
\* The codec on 64-bit integers: instance 1 is of generated type W and holds
\* a drawn selection of values; it is serialized, deserialized and sent
\* through a round trip.

Int64s == {IntV(0 - 12), IntV(0), IntV(7), IntV(305)}

Int64Lists ==
    {ListV(<<>>), ListV(<<IntV(7)>>), ListV(<<IntV(0 - 12), IntV(305)>>),
     ListV(<<IntV(0), IntV(0)>>)}

\* The property stores drawn for the instance of W: each field absent or
\* holding one of the values above; r may also hold a bool, which is an int
\* to isinstance.
StoresW ==
    { (IF r.t = "none" THEN <<>> ELSE << <<F_R, r>> >>)
        \o (IF l.t = "none" THEN <<>> ELSE << <<F_L, l>> >>)
        \o (IF n.t = "none" THEN <<>> ELSE << <<F_N, n>> >>) :
        r \in Int64s \cup {None, BoolV(1)},
        l \in Int64Lists \cup {None},
        n \in {None, StrV(<<"m">>)} }

\* Documents handed to deserialize of W.
DocsW ==
    { << <<F_R, StrV(<<"7">>)>> >>,
      << <<F_L, ListV(<<StrV(<<"1">>), StrV(<<"-", "2">>)>>)>>,
         <<F_R, StrV(<<"3", "0", "5">>)>> >>,
      << <<F_R, StrV(<<"a">>)>> >>,
      << <<F_N, StrV(<<"m">>)>>, <<F_L, ListV(<<IntV(5)>>)>> >> }

InitC ==
    /\ objs \in {[i \in {1, 2} |->
                    IF i = 1
                    THEN [NewObject("W", FALSE, None) EXCEPT !.props = store]
                    ELSE NewObject("K", FALSE, None)] : store \in StoresW}
    /\ errors = <<>>
    /\ last = Result("init", "r1", <<>>, "", <<>>, None, <<>>)
    /\ steps = 0
    /\ vres = Applied("init", None, 0, FALSE)
    /\ cont = NewIter
    /\ http = NoTransport

NextC ==
    \/ EncodeOp("r1")
    \/ RoundTrip("r1")
    \/ \E doc \in DocsW : DecodeOp("r1", doc)

SpecC == InitC /\ [][NextC]_vars
-----------------------------------------------------------------------------
\* clone(): y = x.clone() binds y, instance 2, to a new instance of the
\* class of x, instance 1, that deserialized the JSON text of x.

Letters ==
    <<"a", "b", "c", "d", "e", "f", "g", "h", "i", "j", "k", "l", "m", "n",
      "o", "p", "q", "r", "s", "t", "u", "v", "w", "x", "y", "z">>

LetterRank(c) == CHOOSE i \in 1..Len(Letters) : Letters[i] = c

RECURSIVE StrLess(_, _)
\* a < b for two str of lower-case letters
StrLess(a, b) ==
    IF b = <<>> THEN FALSE
    ELSE IF a = <<>> THEN TRUE
    ELSE IF Head(a) = Head(b) THEN StrLess(Tail(a), Tail(b))
    ELSE LetterRank(Head(a)) < LetterRank(Head(b))

RECURSIVE SortKeys(_)
\* json.dumps(doc, sort_keys=True) read back by yaml.safe_load: the items
\* of the document, and of every nested document, in the order of the keys.
SortKeys(doc) ==
    IF doc = <<>> THEN <<>>
    ELSE LET i == CHOOSE i \in 1..Len(doc) :
                    \A j \in 1..Len(doc) : j = i \/ StrLess(doc[i][1], doc[j][1])
             v == doc[i][2]
         IN  << <<doc[i][1], IF v.t = "dict" THEN DictV(SortKeys(v.o)) ELSE v>> >>
               \o SortKeys(SubSeq(doc, 1, i - 1) \o SubSeq(doc, i + 1, Len(doc)))

\* __deepcopy__: self.__class__().deserialize(self.serialize()); own is the
\* instance the clone becomes.
Clone(inst, errs, own) ==
    Bind(Encode(inst, errs, own), LAMBDA e :
        IF e.exc # "" THEN Decoded(inst, e, 0)
        ELSE Decode(NewObject(inst.cls, FALSE, None), SortKeys(e.doc),
                    e.errs, own, 0))

\* The instances of T a caller may hold: a new one, one that deserialized a
\* document, and one whose choice field was then set.
Instances ==
    LET new == NewObject("T", FALSE, None)
        read == {Decode(new, doc, <<>>, 1, 0) : doc \in Docs}
        ok == {r.inst : r \in {d \in read : d.exc = ""}}
    IN  {new} \cup ok
          \cup {SetProperty(inst, <<>>, CHOICE, StrV(F_A), 1).inst : inst \in ok}

InitK ==
    /\ objs \in {[i \in {1, 2} |->
                    IF i = 1 THEN x ELSE NewObject("T", FALSE, None)] :
                  x \in Instances}
    /\ errors = <<>>
    /\ last = Result("init", "r1", <<>>, "", <<>>, None, <<>>)
    /\ steps = 0
    /\ vres = Applied("init", None, 0, FALSE)
    /\ cont = NewIter
    /\ http = NoTransport

\* y = x.clone()
CloneOp ==
    /\ steps = 0
    /\ \E r \in {Clone(objs[1], errors, 2)} :
         /\ Len(r.errs) <= MaxErrors
         /\ objs' = IF r.exc = "" THEN [objs EXCEPT ![2] = r.inst] ELSE objs
         /\ errors' = r.errs
         /\ last' = Result("clone", "r1", <<>>, r.exc, r.msgs, None, <<>>)
    /\ steps' = steps + 1
    /\ UNCHANGED <<vres, cont, http>>

\* y is a clone of x.
Cloned == steps >= 1 /\ ~(last.op = "clone" /\ last.exc # "")

\* an operation on x, its nested object or y, once y is the clone
AfterClone(A) == Cloned /\ A

NextK ==
    \/ CloneOp
    \/ \E tgt \in Targets : AfterClone(ValidateOp(tgt))
    \/ \E tgt \in Targets, name \in Keys(TYPES("T")) : AfterClone(Get(tgt, name))
    \/ \E tgt \in Targets, name \in Keys(TYPES("T")) :
         \E value \in SetValues(name) : AfterClone(Set(tgt, name, value))

SpecK == InitK /\ [][NextK]_vars

-----------------------------------------------------------------------------
\* OpenApiIter: operations on the containers "c" and "s" and the loops over
\* "c".

MaxItems == 3

MaxIterSteps == 4

Item(name, id) == [name |-> name, id |-> id]

\* The objects a caller puts in a container: two of them have the same name.
Items == {Item("p", 1), Item("p", 2), Item("q", 3)}

\* Whether the container exists, and the items of its list.
HasIter(ct, k) == ct.ref[k] # 0

ItemsOf(ct, k) == ct.heap[ct.ref[k]]

\* list[key] for an int key: a negative key counts from the end.
PyIndex(key, len) == IF key < 0 THEN key + len ELSE key

InRange(key, len) == 0 <= PyIndex(key, len) /\ PyIndex(key, len) < len

Clamp(x, lo, hi) == IF x < lo THEN lo ELSE IF x > hi THEN hi ELSE x

\* slice(start, stop, step).indices(len) for a step other than 0; start and
\* stop are None or an int.
SliceIndices(start, stop, step, len) ==
    LET lo == IF step > 0 THEN 0 ELSE 0 - 1
        hi == IF step > 0 THEN len ELSE len - 1
        at(x, dflt) == IF x.t = "none" THEN dflt
                       ELSE Clamp(IF x.n < 0 THEN x.n + len ELSE x.n, lo, hi)
    IN  [start |-> at(start, IF step > 0 THEN lo ELSE hi),
         stop |-> at(stop, IF step > 0 THEN hi ELSE lo)]

RECURSIVE PyRange(_, _, _)
\* range(start, stop, step)
PyRange(i, stop, step) ==
    IF (step > 0 /\ i < stop) \/ (step < 0 /\ i > stop)
    THEN <<i>> \o PyRange(i + step, stop, step)
    ELSE <<>>

\* The container a slice returns keeps the list of the container it was
\* taken from: a faulty variant, which the property on slices rejects.
GetItemSlice_Shared(ct, start, stop, step) ==
    [ct EXCEPT !.ref["s"] = ct.ref["c"], !.index["s"] = 0 - 1]

\* _getitem(key) of "c" for a slice key: a new container, whose new list is
\* given the items at the indices of the slice; its cursor stays at -1.
GetItemSlice(ct, start, stop, step) ==
    LET ix == SliceIndices(start, stop, step, Len(ItemsOf(ct, "c")))
        picked == PyRange(ix.start, ix.stop, step)
    IN  [ct EXCEPT !.heap[2] = [j \in 1..Len(picked) |->
                                   ItemsOf(ct, "c")[picked[j] + 1]],
                   !.ref["s"] = 2,
                   !.index["s"] = 0 - 1]

\* The item _getitem(key) finds for a str key: the loop goes over all the
\* items and keeps the one it saw last; <<>> stands for None.
RECURSIVE FindByName(_, _, _)
FindByName(items, key, found) ==
    IF items = <<>> THEN found
    ELSE FindByName(Tail(items), key,
                    IF Head(items).name = key THEN <<Head(items)>> ELSE found)

\* The loops over "c" after an operation of another party: a mutation of
\* the container (intact), or a step of another loop (solo).
Touched(trav, by, mutated) ==
    [t \in DOMAIN trav |->
        IF t = by \/ ~trav[t].on THEN trav[t]
        ELSE [trav[t] EXCEPT !.intact = @ /\ ~mutated,
                             !.solo = @ /\ by = 0]]

\* An _iter() that leaves the cursor where it is: a faulty variant, which
\* the property on one loop rejects.
ResetCursor_Keep(ct) == ct

\* _iter(): the cursor goes back to -1.
ResetCursor(ct) == [ct EXCEPT !.index["c"] = 0 - 1]

\* Containers as a sequence of appends leaves them.
InitI ==
    /\ objs = [i \in {1, 2} |->
                 NewObject(IF i = 1 THEN "T" ELSE "K", FALSE, None)]
    /\ errors = <<>>
    /\ last = Result("init", "r1", <<>>, "", <<>>, None, <<>>)
    /\ steps = 0
    /\ vres = Applied("init", None, 0, FALSE)
    /\ cont \in {[NewIter EXCEPT !.heap[1] = items,
                                  !.index["c"] = Len(items) - 1] :
                   items \in {<<>>, <<Item("p", 1)>>,
                              <<Item("p", 1), Item("p", 2)>>,
                              <<Item("q", 3), Item("p", 1)>>,
                              <<Item("p", 1), Item("q", 3), Item("p", 2)>>}}
    /\ http = NoTransport

IterStep(ct) ==
    /\ steps < MaxIterSteps
    /\ cont' = ct
    /\ steps' = steps + 1
    /\ UNCHANGED <<objs, errors, last, vres, http>>

\* k.append(item): _add(item)
AppendOp(k, item) ==
    /\ HasIter(cont, k)
    /\ Len(ItemsOf(cont, k)) < MaxItems
    /\ IterStep([cont EXCEPT
                   !.heap[cont.ref[k]] = Append(@, item),
                   !.index[k] = Len(ItemsOf(cont, k)),
                   !.trav = Touched(@, 0, cont.ref[k] = cont.ref["c"]),
                   !.res = IterRes("append", k, "", <<>>)])

\* k.remove(index)
RemoveOp(k, index) ==
    /\ HasIter(cont, k)
    /\ IF InRange(index, Len(ItemsOf(cont, k)))
       THEN IterStep([cont EXCEPT
                   !.heap[cont.ref[k]] =
                       SubSeq(@, 1, PyIndex(index, Len(@)))
                         \o SubSeq(@, PyIndex(index, Len(@)) + 2, Len(@)),
                   !.index[k] = Len(ItemsOf(cont, k)) - 2,
                   !.trav = Touched(@, 0, cont.ref[k] = cont.ref["c"]),
                   !.res = IterRes("remove", k, "", <<>>)])
       ELSE IterStep([cont EXCEPT
                   !.res = IterRes("remove", k, "IndexError", <<>>)])

\* k.clear()
ClearOp(k) ==
    /\ HasIter(cont, k)
    /\ IterStep([cont EXCEPT
                   !.heap[cont.ref[k]] = <<>>,
                   !.index[k] = 0 - 1,
                   !.trav = Touched(@, 0, cont.ref[k] = cont.ref["c"]),
                   !.res = IterRes("clear", k, "", <<>>)])

\* s = c[start:stop:step]
SliceOp(start, stop, step) ==
    /\ HasIter(cont, "c")
    /\ IterStep([GetItemSlice(cont, start, stop, step) EXCEPT
                   !.res = IterRes("slice", "c", "", <<start, stop, IntV(step)>>)])

\* c[key] for an int key
GetIntOp(key) ==
    /\ HasIter(cont, "c")
    /\ IterStep([cont EXCEPT !.res =
          IF InRange(key, Len(ItemsOf(cont, "c")))
          THEN IterRes("getint", "c", "",
                       <<ItemsOf(cont, "c")[PyIndex(key, Len(ItemsOf(cont, "c"))) + 1]>>)
          ELSE IterRes("getint", "c", "IndexError", <<>>)])

\* c[key] for a str key
GetNameOp(key) ==
    /\ HasIter(cont, "c")
    /\ \E found \in {FindByName(ItemsOf(cont, "c"), key, <<>>)} :
        IterStep([cont EXCEPT !.res =
            IF found = <<>>
            THEN IterRes("getname", key, "IndexError", <<>>)
            ELSE IterRes("getname", key, "", found)])

\* iter(c), which starts loop t
IterOp(t) ==
    /\ ~cont.trav[t].on \/ cont.trav[t].done
    /\ IterStep([ResetCursor(cont) EXCEPT
                   !.trav = [Touched(@, t, FALSE) EXCEPT ![t] =
                               [on |-> TRUE, done |-> FALSE, out |-> <<>>,
                                intact |-> TRUE, solo |-> TRUE]],
                   !.res = IterRes("iter", "c", "", <<>>)])

\* next(c) in loop t: _next(), which ends the loop with StopIteration
NextOp(t) ==
    /\ cont.trav[t].on
    /\ ~cont.trav[t].done
    /\ IF cont.index["c"] + 1 >= Len(ItemsOf(cont, "c"))
       THEN IterStep([cont EXCEPT
                   !.trav = [Touched(@, t, FALSE) EXCEPT ![t].done = TRUE],
                   !.res = [IterRes("next", "c", "StopIteration", <<>>)
                              EXCEPT !.by = t]])
       ELSE IterStep([cont EXCEPT
                   !.index["c"] = @ + 1,
                   !.trav = [Touched(@, t, FALSE) EXCEPT ![t].out =
                               Append(@, ItemsOf(cont, "c")[cont.index["c"] + 2])],
                   !.res = [IterRes("next", "c", "",
                                    <<ItemsOf(cont, "c")[cont.index["c"] + 2]>>)
                              EXCEPT !.by = t]])

NextI ==
    \/ \E k \in {"c", "s"}, item \in Items : AppendOp(k, item)
    \/ \E k \in {"c", "s"}, index \in {0, 0 - 1, 3} : RemoveOp(k, index)
    \/ \E k \in {"c", "s"} : ClearOp(k)
    \/ \E start \in {None, IntV(1), IntV(0 - 2)}, stop \in {None, IntV(2)},
          step \in {1, 0 - 1} : SliceOp(start, stop, step)
    \/ \E key \in {0, 0 - 1, 3} : GetIntOp(key)
    \/ \E key \in {"p", "q", "z"} : GetNameOp(key)
    \/ \E t \in {1, 2} : IterOp(t)
    \/ \E t \in {1, 2} : NextOp(t)

SpecI == InitI /\ [][NextI]_vars

-----------------------------------------------------------------------------
\* HttpTransport: the transport, and the log of the requests its session
\* was asked to send.

MaxRequests == 2

\* HttpTransport(**kwargs): verify is kwargs["verify"], or False when the
\* caller gives none; location is kwargs["location"] or the local default.
\* "absent" stands for a keyword that is not given.
NewTransport(verify, location) ==
    /\ ~http.made
    /\ http' = [made |-> TRUE,
                verify |-> IF verify = "absent" THEN FALSE ELSE verify = "True",
                location |-> IF location = "absent"
                             THEN "https://localhost:443" ELSE location,
                log |-> <<>>]
    /\ UNCHANGED <<objs, errors, last, steps, vres, cont>>

\* set_verify(verify)
SetVerify(verify) ==
    /\ http.made
    /\ http' = [http EXCEPT !.verify = verify]
    /\ UNCHANGED <<objs, errors, last, steps, vres, cont>>

\* The request send_recv hands to the session: method, url, the kind of
\* data, the content type and the verify argument; asked is the verify
\* setting of the transport at that time, which the request does not carry.
Request(method, url, payload, asked) ==
    [method |-> method,
     url |-> url,
     data |-> payload,
     ctype |-> IF payload = "bytes" THEN "application/octet-stream"
               ELSE "application/json",
     verify |-> FALSE,
     asked |-> asked]

\* send_recv(method, relative_url, payload): a payload that is no bytes, no
\* str and no OpenApiBase raises before any request is made.
SendRecv(method, url, payload) ==
    /\ http.made
    /\ Len(http.log) < MaxRequests
    /\ http' = IF payload = "other" THEN http
               ELSE [http EXCEPT !.log =
                       Append(@, Request(method, <<http.location, url>>,
                                         payload, http.verify))]
    /\ UNCHANGED <<objs, errors, last, steps, vres, cont>>

NextH ==
    \/ \E verify \in {"True", "False", "absent"},
          location \in {"absent", "https://h:8443"} :
         NewTransport(verify, location)
    \/ \E verify \in BOOLEAN : SetVerify(verify)
    \/ \E method \in {"GET", "POST"}, url \in {"/config", "/control"},
          payload \in {"none", "bytes", "str", "object", "other"} :
         SendRecv(method, url, payload)

SpecH == Init /\ [][NextH]_vars

-----------------------------------------------------------------------------
\* Required fields with a static default: instance 1 is of generated type D;
\* its fields are read and assigned, and it is validated.

InitD ==
    /\ objs = [i \in {1, 2} |->
                 NewObject(IF i = 1 THEN "D" ELSE "K", FALSE, None)]
    /\ errors = <<>>
    /\ last = Result("init", "r1", <<>>, "", <<>>, None, <<>>)
    /\ steps = 0
    /\ vres = Applied("init", None, 0, FALSE)
    /\ cont = NewIter
    /\ http = NoTransport

NextD ==
    \/ ValidateOp("r1")
    \/ \E name \in Keys(TYPES("D")) : Get("r1", name)
    \/ \E name \in Keys(TYPES("D")) :
         \E value \in SetValues(name) : Set("r1", name, value)

SpecD == InitD /\ [][NextD]_vars

-----------------------------------------------------------------------------
\* Properties.

\* The members of the choice group of a generated type.
Members(cls) == Range(DictGet(TYPES(cls), CHOICE).enum)

\* The members of its choice group that hold a value in an instance.
Held(inst) == {m \in Members(inst.cls) : DictGet(inst.props, m).t # "none"}

CodecOps == {"validate", "encode", "decode", "roundtrip"}

\* C1: whatever get, set, setChoice and decode operations were applied, at
\* most one member of the choice group of an instance holds a value.
C1_AtMostOneMember ==
    \A tgt \in Targets : Exists(tgt) => Cardinality(Held(Inst(tgt))) <= 1

\* A document naming two members of the group was decoded into instance 1,
\* which holds the later one.
C1_Witness ==
    /\ last.op = "decode"
    /\ last.tgt = "r1"
    /\ last.exc = ""
    /\ Held(objs[1]) = {F_B}
    /\ DictGet(objs[1].props, F_B) = StrV(<<"x">>)

\* C2: setting member B of an instance whose group holds another member A
\* removes A from the property store and records B as the active choice;
\* _set_choice with a name outside the group changes nothing.
C2_SetEvictsSiblings ==
    [][/\ (/\ last'.op = "set"
           /\ last'.name \in Members(Inst(last'.tgt).cls)
           /\ Held(Inst(last'.tgt)) \ {last'.name} # {})
          => /\ ExistsIn(objs', last'.tgt)
             /\ \A m \in Members(Inst(last'.tgt).cls) \ {last'.name} :
                   ~HasKey(InstIn(objs', last'.tgt).props, m)
             /\ DictGet(InstIn(objs', last'.tgt).props, CHOICE)
                  = StrV(last'.name)
       /\ (/\ last'.op = "setchoice"
           /\ last'.name \notin Members(Inst(last'.tgt).cls))
          => objs' = objs]_vars

\* C3: an instance that went through encode and decode into a fresh
\* instance is equal to that instance, choice and payload included.
C3_RoundTripEqual ==
    (last.op = "roundtrip" /\ last.exc = "")
        => Canon(last.ret.o[1]) = Canon(Inst(last.tgt))

\* C4: validate() called twice in a row on one instance ends the same way
\* both times, with the same violations.
C4_ValidateTwiceSame ==
    [][(last.op = "validate" /\ last'.op = "validate" /\ last'.tgt = last.tgt)
          => (last'.exc = last.exc /\ last'.msgs = last.msgs)]_vars

\* C5: the violations a validate, serialize or deserialize of an instance
\* reports were all recorded by operations on that instance.
C5_ErrorsInstanceScoped ==
    (last.op \in CodecOps /\ last.exc = "validation")
        => \A i \in 1..Len(last.msgs) : last.msgs[i].own = Own(last.tgt)

\* C6: no validator raises, whatever value it is given.
C6_ValidatorsNeverRaise == vres.exc = FALSE

\* C7: the aggregate error is raised by the instance the call was made on,
\* never by a nested one, and carries every violation of its graph.
C7_RaisesAtTopWithAll ==
    (last.op \in CodecOps /\ last.exc = "validation")
        => /\ last.depth = 0
           /\ Range(ValidateWalk(Inst(last.tgt), <<>>,
                                 <<JSON_NAME(Inst(last.tgt).cls)>>,
                                 Own(last.tgt)).errs)
                 \subseteq Range(last.msgs)

\* C8: after a validate, serialize or deserialize call raised, the error
\* list is empty.
C8_ErrorsClearedAfterRaise ==
    (last.op \in {"validate", "encode", "decode"} /\ last.exc # "")
        => errors = <<>>

\* What a walk of the instance alone finds: its violations, with no error
\* recorded beforehand.
Violations(tgt) ==
    ValidateWalk(Inst(tgt), <<>>, <<JSON_NAME(Inst(tgt).cls)>>, Own(tgt))

\* C9: validate() of an instance whose only violation is one unset required
\* field raises exactly that one violation.
C9_OneRequiredOneViolation ==
    (/\ last.op = "validate"
     /\ ~Violations(last.tgt).exc
     /\ Len(Violations(last.tgt).errs) = 1
     /\ Violations(last.tgt).errs[1].kind = "required")
        => /\ last.exc = "validation"
           /\ last.msgs = Violations(last.tgt).errs

RequiredErrors(errs) == SelectSeq(errs, LAMBDA e : e.kind = "required")

\* C10: a get or a set neither raises nor adds a required-field violation
\* to the error list.
C10_NoRequiredOnGetSet ==
    [][last'.op \in {"get", "set", "setchoice"}
          => /\ last'.exc = ""
             /\ RequiredErrors(errors') = RequiredErrors(errors)]_vars

\* A set on instance 2 left its required field n unset.
C10_Witness ==
    /\ last.op = "set"
    /\ last.tgt = "r2"
    /\ DictGet(objs[2].props, F_N).t = "none"
    /\ DictGet(objs[2].props, F_A).t # "none"

\* C11: a set of a value that is not None and not in the enum of the field
\* does not raise, records a violation and stores the value.
C11_EnumInvalidStored ==
    (/\ last.op = "set"
     /\ last.arg.t # "none"
     /\ ~IsEnumValid(Inst(last.tgt), last.name, last.arg))
        => /\ last.exc = ""
           /\ last.added # <<>>
           /\ DictGet(Inst(last.tgt).props, last.name) = last.arg

\* C12: a set of None on a field that has a static default leaves the
\* field holding that default.
C12_NoneRevertsToDefault ==
    (/\ last.op = "set"
     /\ last.arg.t = "none"
     /\ HasKey(DEFAULTS(Inst(last.tgt).cls), last.name))
        => DictGet(Inst(last.tgt).props, last.name)
             = DictGet(DEFAULTS(Inst(last.tgt).cls), last.name)

\* Field a of instance 1 was set to None after an earlier operation.
C12_Witness ==
    /\ last.op = "set"
    /\ last.tgt = "r1"
    /\ last.name = F_A
    /\ last.arg.t = "none"
    /\ steps >= 2
    /\ DictGet(objs[1].props, F_A) = StrV(<<"d">>)


\* The fields of an instance that hold a value.
Stored(inst) ==
    {inst.props[i][1] : i \in {j \in 1..Len(inst.props) : inst.props[j][2].t # "none"}}

RECURSIVE SparseDoc(_, _)
\* The keys of a document are the fields of the instance that hold a value,
\* and so at every nested instance.
SparseDoc(inst, doc) ==
    /\ Keys(doc) = Stored(inst)
    /\ \A k \in Stored(inst) :
          DictGet(inst.props, k).t = "obj"
            => /\ DictGet(doc, k).t = "dict"
               /\ SparseDoc(DictGet(inst.props, k).o[1], DictGet(doc, k).o)

\* C13: the document serialize returns has exactly the fields the instance
\* stores a value for as keys: no field that was never set or defaulted, and
\* no other key.
C13_EncodeSparse ==
    (last.op = "encode" /\ last.exc = "")
        => SparseDoc(Inst(last.tgt), last.ret.o)

\* Instance 1 was serialized holding its nested object and another field,
\* with declared fields left unset.
C13_Witness ==
    /\ last.op = "encode"
    /\ last.tgt = "r1"
    /\ last.exc = ""
    /\ Stored(objs[1]) = {CHOICE, F_O, F_R}
    /\ HasKey(DictGet(objs[1].props, F_O).o[1].props, F_N)

\* str(n) of an int: an optional minus sign and decimal digits.
DecimalString(v) ==
    /\ v.t = "str"
    /\ IntParses(v.s, 10)
    /\ \A i \in 1..Len(v.s) : v.s[i] \notin {" ", "+"}

\* C14: an integer in a 64-bit integer field, and every integer of an array
\* of 64-bit integers, is serialized as a string of decimal digits, and the
\* round trip of the instance stores the same integers again.
C14_Int64AsDigits ==
    LET x == objs[1]
        r == DictGet(x.props, F_R)
        l == DictGet(x.props, F_L)
        ints == l.t = "list" /\ \A j \in 1..Len(l.o) : l.o[j].t = "int"
    IN  /\ (last.op = "encode" /\ last.exc = "")
            => /\ r.t = "int" => /\ DecimalString(DictGet(last.ret.o, F_R))
                                 /\ IntOf(DictGet(last.ret.o, F_R).s, 10) = r.n
               /\ ints => /\ DictGet(last.ret.o, F_L).t = "list"
                          /\ Len(DictGet(last.ret.o, F_L).o) = Len(l.o)
                          /\ \A j \in 1..Len(l.o) :
                                DecimalString(DictGet(last.ret.o, F_L).o[j])
        /\ (last.op = "roundtrip" /\ (r.t \in {"int", "none"}) /\ (ints \/ l.t = "none"))
            => /\ last.exc = ""
               /\ DictGet(last.ret.o[1].props, F_R) = r
               /\ DictGet(last.ret.o[1].props, F_L) = l

\* The instance of W went through the round trip holding a negative integer
\* and an array of two integers.
C14_Witness ==
    /\ last.op = "roundtrip"
    /\ last.exc = ""
    /\ DictGet(objs[1].props, F_R) = IntV(0 - 12)
    /\ DictGet(objs[1].props, F_L) = ListV(<<IntV(0 - 12), IntV(305)>>)
    /\ DictGet(last.ret.o[1].props, F_L) = ListV(<<IntV(0 - 12), IntV(305)>>)


\* The items at the indices a slice selects, for a step of 1 or -1: from
\* the start to before the stop, forwards or backwards, a negative bound
\* counting from the end and a bound outside the list meaning its end.
Selected(items, start, stop, step) ==
    LET n == Len(items)
        norm(x) == IF x.n < 0 THEN x.n + n ELSE x.n
        from == IF start.t = "none" THEN (IF step > 0 THEN 0 ELSE n - 1)
                ELSE norm(start)
        to == IF stop.t = "none" THEN (IF step > 0 THEN n ELSE 0 - 1)
              ELSE norm(stop)
        idx == IF step > 0
               THEN {i \in 0..(n - 1) : from <= i /\ i < to}
               ELSE {i \in 0..(n - 1) : to < i /\ i <= from}
        ord(k) == IF step > 0
                  THEN CHOOSE i \in idx : Cardinality({j \in idx : j < i}) = k - 1
                  ELSE CHOOSE i \in idx : Cardinality({j \in idx : j > i}) = k - 1
    IN  [k \in 1..Cardinality(idx) |-> items[ord(k) + 1]]

\* C15: a slice of "c" returns a container holding the selected items in
\* order, and afterwards an append to, a removal from or a clear of one of
\* the two containers leaves the items of the other as they were.
C15_SliceIndependent ==
    [][/\ cont'.res.op = "slice"
          => /\ HasIter(cont', "s")
             /\ ItemsOf(cont', "s")
                  = Selected(ItemsOf(cont, "c"), cont'.res.ret[1],
                             cont'.res.ret[2], cont'.res.ret[3].n)
             /\ ItemsOf(cont', "c") = ItemsOf(cont, "c")
       /\ (cont'.res.op \in {"append", "remove", "clear"} /\ HasIter(cont, "s"))
          => \A k \in {"c", "s"} :
                k # cont'.res.on => ItemsOf(cont', k) = ItemsOf(cont, k)]_vars

\* A slice of two items was taken and the container it came from was then
\* cleared.
C15_Witness ==
    /\ cont.res.op = "clear"
    /\ cont.res.on = "c"
    /\ HasIter(cont, "s")
    /\ Len(ItemsOf(cont, "s")) = 2
    /\ ItemsOf(cont, "c") = <<>>

\* C16: a lookup by name returns the item of lowest index with that name,
\* and raises an out-of-range error when no item has it.
C16_FirstByName ==
    LET items == ItemsOf(cont, "c")
        hits == {i \in 1..Len(items) : items[i].name = cont.res.on}
    IN  cont.res.op = "getname"
            => IF hits = {}
               THEN cont.res.exc = "IndexError"
               ELSE /\ cont.res.exc = ""
                    /\ cont.res.ret
                         = <<items[CHOOSE i \in hits : \A j \in hits : i <= j]>>

\* C17: as long as the container is not mutated, each of the loops over it
\* is given the items in index order, every one once, whatever steps of the
\* other loop and index accesses come in between.
C17_LoopsDoNotInterfere ==
    \A t \in {1, 2} :
        (cont.trav[t].on /\ cont.trav[t].intact)
            => /\ Len(cont.trav[t].out) <= Len(ItemsOf(cont, "c"))
               /\ cont.trav[t].out
                    = SubSeq(ItemsOf(cont, "c"), 1, Len(cont.trav[t].out))
               /\ cont.trav[t].done
                    => cont.trav[t].out = ItemsOf(cont, "c")

\* C18: one loop over the container, with no mutation and no other loop in
\* between, is given items 0, 1, ... in order from item 0, whatever
\* happened before it started, and ends after exactly all the items.
C18_OneLoopInOrder ==
    \A t \in {1, 2} :
        (cont.trav[t].on /\ cont.trav[t].intact /\ cont.trav[t].solo)
            => /\ Len(cont.trav[t].out) = cont.index["c"] + 1
               /\ Len(cont.trav[t].out) <= Len(ItemsOf(cont, "c"))
               /\ cont.trav[t].out
                    = SubSeq(ItemsOf(cont, "c"), 1, Len(cont.trav[t].out))
               /\ cont.trav[t].done
                    => cont.trav[t].out = ItemsOf(cont, "c")

\* After a mutation of the container a loop started, was given its one
\* item and ended.
C18_Witness ==
    /\ steps = 4
    /\ cont.trav[1].on
    /\ cont.trav[1].done
    /\ cont.trav[1].solo
    /\ cont.trav[1].intact
    /\ cont.trav[1].out = <<Item("p", 2)>>
    /\ cont.res.op = "next"
    /\ cont.res.exc = "StopIteration"


\* What an instance shows to its holder: the structure __eq__ compares and
\* how validate() would end on it now.
Observable(o, errs, i) ==
    [canon |-> Canon(o[i]),
     validate |-> Bind(Validate(o[i], errs, <<JSON_NAME(o[i].cls)>>, i),
                       LAMBDA v : [exc |-> v.exc, msgs |-> v.msgs])]

\* C19: the clone of an instance is equal to it, and afterwards a get, a
\* set or a validate on one of the two, nested objects included, leaves what
\* the other shows as it was.
C19_CloneIndependent ==
    [][/\ (last'.op = "clone" /\ last'.exc = "")
          => Canon(objs'[2]) = Canon(objs'[1])
       /\ (Cloned /\ last'.op \in {"get", "set", "validate"})
          => LET other == IF Own(last'.tgt) = 1 THEN 2 ELSE 1
             IN  Observable(objs', errors', other)
                   = Observable(objs, errors, other)]_vars


\* C20: a request verifies the certificate of the server exactly when the
\* verify setting of the transport is True: with verify=True every request
\* verifies it, and only verify=False turns the verification off.
C20_RequestsVerify ==
    \A i \in 1..Len(http.log) : http.log[i].verify = http.log[i].asked


\* C21: the child a get of the object field o of instance 1 creates is bound
\* to instance 1 as its parent together with the name o of the choice field
\* it occupies, and a set of a value other than None on the child that
\* instance 1 holds in o leaves o recorded as the active choice of instance 1.
C21_ChildNotifiesParent ==
    /\ (last.op = "get" /\ last.tgt = "r1" /\ last.name = F_O)
          => /\ Inst("c1").parent
             /\ Inst("c1").choice = StrV(F_O)
    /\ (last.op = "set" /\ last.tgt = "c1" /\ last.arg.t # "none")
          => DictGet(objs[1].props, CHOICE) = StrV(F_O)

\* The required fields of an instance that have a static default and hold
\* no value.
UnsetWithDefault(inst) ==
    {r \in Range(REQUIRED(inst.cls)) :
        HasKey(DEFAULTS(inst.cls), r) /\ DictGet(inst.props, r).t = "none"}

\* C22: validate() of an instance with a required field that is unset and
\* has a static default reports no required-field violation for that field.
C22_RequiredDefaultMaterialized ==
    (last.op = "validate" /\ UnsetWithDefault(Inst(last.tgt)) # {})
        => \A i \in 1..Len(last.msgs) :
              ~(/\ last.msgs[i].kind = "required"
                /\ last.msgs[i].path[Len(last.msgs[i].path)]
                     \in UnsetWithDefault(Inst(last.tgt)))

\* A violation inside a nested object of an instance comes after a violation
\* of a field of that instance itself: the path of the later one goes
\* through the instance the earlier one is a field of.
NestedAfterLocal(msgs, i, j) ==
    /\ i < j
    /\ Len(msgs[j].path) > Len(msgs[i].path)
    /\ SubSeq(msgs[j].path, 1, Len(msgs[i].path) - 1)
         = SubSeq(msgs[i].path, 1, Len(msgs[i].path) - 1)

\* C23: in the violations one validate() call finds, starting from an empty
\* error list, every violation inside a nested object of an instance comes
\* before every violation of the fields of that instance itself.
C23_NestedBeforeLocal ==
    [][(last'.op = "validate" /\ errors = <<>>)
          => \A i, j \in 1..Len(last'.msgs) :
                ~NestedAfterLocal(last'.msgs, i, j)]_vars

\* A mac address: a str of 17 characters with no space, made of six groups
\* separated by ":", each group hex digits with a value of at most 255.
ValidMac(v) ==
    /\ IsStr(v)
    /\ \A i \in 1..Len(v.s) : v.s[i] # " "
    /\ Len(v.s) = 17
    /\ Len(Split(v.s, ":", -1)) = 6
    /\ \A i \in 1..Len(Split(v.s, ":", -1)) :
          LET group == Split(v.s, ":", -1)[i]
          IN  /\ group # <<>>
              /\ \A k \in 1..Len(group) : IsDigit(group[k], 16)
              /\ DigitsVal(group, 16) <= 255

\* C24: validate_mac records no violation exactly when the value is a mac
\* address, and records one for every other value.
C24_MacExactlyValid ==
    vres.op = "mac" => ((vres.n = 0 /\ ~vres.exc) <=> ValidMac(vres.value))

\* The one "::" of an address written out as a zero group.
ExpandZero(ip) ==
    IF Prefix(ip, 2) = <<":", ":">> THEN Replace(ip, <<":", ":">>, <<"0", ":">>)
    ELSE IF Suffix(ip, 2) = <<":", ":">>
    THEN Replace(ip, <<":", ":">>, <<":", "0">>)
    ELSE Replace(ip, <<":", ":">>, <<":", "0", ":">>)

\* The rules that make a str no ipv6 address: a space, more than seven
\* colons, more than one "::", a ":::", a single colon at an end, a colon
\* count other than seven when there is no "::", or a group that is not one
\* to four hex digits once the "::" is written out.
BadIpv6(ip) ==
    \/ \E i \in 1..Len(ip) : ip[i] = " "
    \/ Count(ip, <<":">>) > 7
    \/ Count(ip, <<":", ":">>) > 1
    \/ Count(ip, <<":", ":", ":">>) > 0
    \/ (ip # <<>> /\ ip[1] = ":" /\ Prefix(ip, 2) # <<":", ":">>)
    \/ (ip # <<>> /\ ip[Len(ip)] = ":" /\ Suffix(ip, 2) # <<":", ":">>)
    \/ (Count(ip, <<":", ":">>) = 0 /\ Count(ip, <<":">>) # 7)
    \/ /\ ip # <<":", ":">>
       /\ \E i \in 1..Len(Split(ExpandZero(ip), ":", -1)) :
            LET group == Split(ExpandZero(ip), ":", -1)[i]
            IN  \/ Len(group) \notin 1..4
                \/ \E k \in 1..Len(group) : ~IsDigit(group[k], 16)

\* C25: validate_ipv6 of a str records a violation when one of the rules
\* rejects the str, and records none for "::" and for every str the rules
\* let pass.
C25_Ipv6Rules ==
    (vres.op = "ipv6" /\ IsStr(vres.value))
        => IF BadIpv6(vres.value.s)
           THEN vres.n > 0
           ELSE vres.n = 0 /\ ~vres.exc

RECURSIVE ItemViolations(_, _)
\* The violations the validator of the item type records for the items of
\* an array, one item after the other.
ItemViolations(items, itemtype) ==
    IF items = <<>> THEN 0
    ELSE Validator(itemtype, Head(items)).n + ItemViolations(Tail(items), itemtype)

\* The violation of an array whose length is below min or above max.
LengthViolations(items, min, max) ==
    IF \/ min.t # "none" /\ Len(items) < min.n
       \/ max.t # "none" /\ Len(items) > max.n
    THEN 1 ELSE 0

\* C26: validate_list of an array with min and max records the violations
\* of the scalar validator for each item and one more when the length of
\* the array is outside the bounds; the bounds are not applied to the items.
C26_ListLengthChecked ==
    (/\ vres.op = "list"
     /\ vres.value.t = "list"
     /\ \A i \in 1..Len(vres.value.o) :
           ~Validator(vres.args[1], vres.value.o[i]).exc)
        => /\ ~vres.exc
           /\ vres.n = ItemViolations(vres.value.o, vres.args[1])
                         + LengthViolations(vres.value.o, vres.args[2],
                                            vres.args[3])

\* C29: get(name, with_default=True) of a field that holds no value does
\* not raise, returns the static default of the field if it has one, and
\* leaves every field of the instance holding what it held: the field still
\* holds nothing, and the recorded choice and the other members of the
\* choice group are as before.
C29_GetDefaultKeepsStore ==
    [][(/\ last'.op = "getvalue"
        /\ last'.arg = BoolV(1)
        /\ HasKey(TYPES(Inst(last'.tgt).cls), last'.name)
        /\ DictGet(Inst(last'.tgt).props, last'.name).t = "none")
          => /\ last'.exc = ""
             /\ HasKey(DEFAULTS(Inst(last'.tgt).cls), last'.name)
                  => last'.ret = DictGet(DEFAULTS(Inst(last'.tgt).cls), last'.name)
             /\ ExistsIn(objs', last'.tgt)
             /\ Canon(InstIn(objs', last'.tgt)) = Canon(Inst(last'.tgt))]_vars

C28_ChoiceNamesHeldMember ==
    \A tgt \in Targets :
        (/\ Exists(tgt)
         /\ DictGet(Inst(tgt).props, CHOICE).t # "none"
         /\ Held(Inst(tgt)) # {})
            => Held(Inst(tgt)) = {DictGet(Inst(tgt).props, CHOICE).s}

\* C30: when a loop over the container ends, with no step of another loop
\* since it started, every item the container holds was given to the loop,
\* whatever was appended to or removed from the container during the loop.
C30_MutationSkipsNothing ==
    (/\ cont.res.op = "next"
     /\ cont.res.exc = "StopIteration"
     /\ cont.trav[cont.res.by].solo)
        => Range(ItemsOf(cont, "c")) \subseteq Range(cont.trav[cont.res.by].out)

====
